---- MODULE Spec2Model ----
(***************************************************************************)
(* gdkg (src/main.go): an interactive tool that generates and revokes SSH   *)
(* deploy keys and keeps matching `Host github-<repo>` blocks in the        *)
(* user's SSH client configuration file.                                    *)
(*                                                                          *)
(* Text is a sequence of tokens.  A token is a piece of text that the       *)
(* program never looks into: the separators "\n", " ", "\t", "/" are tokens *)
(* of their own, a keyword such as "Host" or "github-" is one token, and a  *)
(* repository name is a sequence of one-letter tokens, so that the name     *)
(* "a" is a proper prefix of the name "ab".  strings.Split, strings.Join,   *)
(* strings.TrimSpace, strings.HasPrefix, strings.Contains and               *)
(* bytes.Contains are computed on token sequences as Go computes them on    *)
(* bytes.                                                                   *)
(*                                                                          *)
(* The environment is nondeterministic: every read of standard input can    *)
(* meet a line, end of input or a read error; ssh-keygen, ssh-add, MkdirAll, *)
(* os.Remove, the reads and writes of the config file and backupFile can    *)
(* each succeed or fail.  A failed write leaves the file as it was.  The    *)
(* email is not kept: it is only the comment passed to ssh-keygen.  Each    *)
(* process invocation runs in a second of its own, so the timestamp of a    *)
(* backup is the number of the invocation.                                  *)
(***************************************************************************)
EXTENDS Naturals, Sequences, FiniteSets, TLC

VARIABLES
    config,     \* ~/.ssh/config: [exists, data]
    keys,       \* key files on disk: path -> content (a key id), for the paths that exist
    agent,      \* key ids held by the running ssh-agent
    backups,    \* backup files of the config: timestamp -> content
    runs,       \* number of the current process invocation (also its wall-clock second)
    pc,         \* position of the process in main/generateKey/revokeKey
    flow,       \* the flow main() dispatched to: "gen", "rev" or "" (none yet)
    homeOk,     \* whether os.UserHomeDir() succeeds in this process
    repo,       \* local `repo`
    dir,        \* local `dir`
    overwrite,  \* local `overwrite` (answer to the overwrite prompt)
    fingerprint,\* local `fingerprint`
    inAgent,    \* result of isKeyInSSHAgent(fingerprint)
    cfgErr,     \* error returned by addSSHConfigEntry / removeSSHConfigBlock
    bakErr,     \* error returned by backupFile
    fatal,      \* message of the log.Fatal that ended the process, "" if none
    ops,        \* side effects of this process so far, in order
    pre         \* config, keys and agent as they were when this process started

vars == <<config, keys, agent, backups, runs, pc, flow, homeOk, repo, dir, overwrite,
          fingerprint, inAgent, cfgErr, bakErr, fatal, ops, pre>>

----------------------------------------------------------------------------
(* Bounds *)

\* Number of process invocations in a behaviour.
MaxRuns == 2

\* Number of lines of a pre-existing config file drawn for SpecEdit.
MaxLines == 3

----------------------------------------------------------------------------
(* Go string functions on token sequences *)

NL == "\n"

\* unicode.IsSpace, on the tokens of the model
IsSpace(t) == t \in {" ", "\t", "\n", "\r"}

RECURSIVE TrimLeft(_)
TrimLeft(s) ==
    IF s # <<>> /\ IsSpace(Head(s)) THEN TrimLeft(Tail(s)) ELSE s

RECURSIVE TrimRight(_)
TrimRight(s) ==
    IF s # <<>> /\ IsSpace(s[Len(s)]) THEN TrimRight(SubSeq(s, 1, Len(s) - 1)) ELSE s

\* strings.TrimSpace
TrimSpace(s) == TrimRight(TrimLeft(s))

\* strings.HasPrefix
HasPrefix(s, p) == Len(s) >= Len(p) /\ SubSeq(s, 1, Len(p)) = p

\* strings.Contains / bytes.Contains
Contains(s, sub) ==
    \E i \in 0..Len(s) : i + Len(sub) <= Len(s) /\ SubSeq(s, i + 1, i + Len(sub)) = sub

\* strings.ContainsAny
ContainsAny(s, chars) == \E i \in 1..Len(s) : s[i] \in chars

\* strings.ToLower, on the one-letter answers of the model
ToLower(s) == [i \in 1..Len(s) |-> IF s[i] = "Y" THEN "y" ELSE s[i]]

\* strings.Split(s, sep) for a one-token separator: always at least one piece
RECURSIVE SplitFrom(_, _, _)
SplitFrom(s, sep, cur) ==
    IF s = <<>> THEN <<cur>>
    ELSE IF Head(s) = sep THEN <<cur>> \o SplitFrom(Tail(s), sep, <<>>)
    ELSE SplitFrom(Tail(s), sep, Append(cur, Head(s)))

Split(s, sep) == SplitFrom(s, sep, <<>>)

\* strings.Join(lines, sep)
RECURSIVE Join(_, _)
Join(lines, sep) ==
    IF lines = <<>> THEN <<>>
    ELSE IF Len(lines) = 1 THEN lines[1]
    ELSE lines[1] \o <<sep>> \o Join(Tail(lines), sep)

\* strings.Fields: the maximal runs of non-space tokens
RECURSIVE FieldsFrom(_, _)
FieldsFrom(s, cur) ==
    IF s = <<>> THEN (IF cur = <<>> THEN <<>> ELSE <<cur>>)
    ELSE IF IsSpace(Head(s))
         THEN (IF cur = <<>> THEN <<>> ELSE <<cur>>) \o FieldsFrom(Tail(s), <<>>)
         ELSE FieldsFrom(Tail(s), Append(cur, Head(s)))

Fields(s) == FieldsFrom(s, <<>>)

----------------------------------------------------------------------------
(* Paths and names *)

\* os.UserHomeDir()
Home == <<"/", "home">>

\* filepath.Clean on the paths of the model, which hold no "." or "..":
\* runs of separators collapse to one
RECURSIVE Clean(_)
Clean(p) ==
    IF Len(p) < 2 THEN p
    ELSE IF p[1] = "/" /\ p[2] = "/" THEN Clean(Tail(p))
    ELSE <<p[1]>> \o Clean(Tail(p))

\* filepath.Join(a, b)
PathJoin(a, b) == Clean(a \o <<"/">> \o b)

\* filepath.Join(home, ".ssh")
SSHDir == PathJoin(Home, <<".ssh">>)

\* privPath := filepath.Join(dir, repo+"_deploy-key")
PrivPath(d, r) == PathJoin(d, r \o <<"_deploy-key">>)

\* pubPath := privPath + ".pub"
PubPath(d, r) == PrivPath(d, r) \o <<".pub">>

\* alias := "github-" + repo
Alias(r) == <<"github-">> \o r

\* hostLine := "Host " + alias
HostLine(alias) == <<"Host", " ">> \o alias

----------------------------------------------------------------------------
(* The config editor: addSSHConfigEntry and removeSSHConfigBlock *)

\* A file that does not exist
NoFile == [exists |-> FALSE, data |-> <<>>]

File(data) == [exists |-> TRUE, data |-> data]

\* Faulty variant of Entry: the entry without its leading newline
Entry_NoLeadingNewline(alias, privPath) ==
    HostLine(alias) \o
    <<NL, "\t", "HostName", " ", "github.com">> \o
    <<NL, "\t", "User", " ", "git">> \o
    <<NL, "\t", "IdentityFile", " ">> \o privPath \o
    <<NL, "\t", "IdentitiesOnly", " ", "yes", NL>>

\* entry := fmt.Sprintf("\nHost %s\n\tHostName github.com\n\tUser git\n\tIdentityFile %s\n\tIdentitiesOnly yes\n", ...)
Entry(alias, privPath) ==
    <<NL>> \o HostLine(alias) \o
    <<NL, "\t", "HostName", " ", "github.com">> \o
    <<NL, "\t", "User", " ", "git">> \o
    <<NL, "\t", "IdentityFile", " ">> \o privPath \o
    <<NL, "\t", "IdentitiesOnly", " ", "yes", NL>>

\* Faulty variant of EntryExists: the whole file is compared with the header line
EntryExists_WholeFile(f, alias) == f.data = HostLine(alias)

\* bytes.Contains(content, []byte("Host "+alias)); the content of a missing file is empty
EntryExists(f, alias) == Contains(f.data, HostLine(alias))

\* Faulty variant of AddSSHConfigEntry: the entry is appended without the check
AddSSHConfigEntry_NoCheck(alias, privPath, io) ==
    IF ~io
    THEN /\ cfgErr' = "io"
         /\ config' = config
    ELSE /\ cfgErr' = "nil"
         /\ config' = [exists |-> TRUE,
                       data |-> config.data \o <<NL>> \o HostLine(alias) \o <<NL>>]

\* addSSHConfigEntry(alias, privPath); `io` is whether ReadFile and OpenFile succeed
AddSSHConfigEntry(alias, privPath, io) ==
    IF ~io
    THEN /\ cfgErr' = "io"
         /\ config' = config
    ELSE IF EntryExists(config, alias)
    THEN /\ cfgErr' = "exists"
         /\ config' = config
    ELSE /\ cfgErr' = "nil"
         /\ config' = File(config.data \o Entry(alias, privPath))

\* The loop of removeSSHConfigBlock over the remaining lines; the result is `out`
RECURSIVE ScanLines(_, _, _)
ScanLines(lines, hostLine, inBlock) ==
    IF lines = <<>> THEN <<>>
    ELSE LET line == Head(lines)
             trimmed == TrimSpace(line)
             isHost == HasPrefix(trimmed, <<"Host", " ">>)
         IN  IF isHost /\ Contains(trimmed, hostLine)
             THEN ScanLines(Tail(lines), hostLine, TRUE)
             ELSE IF inBlock /\ ~(isHost /\ ~Contains(trimmed, hostLine))
             THEN ScanLines(Tail(lines), hostLine, TRUE)
             ELSE <<line>> \o ScanLines(Tail(lines), hostLine, FALSE)

\* Faulty variant of RemoveBlock: the content read is written back
RemoveBlock_WritesInput(content, alias) == content

\* The content removeSSHConfigBlock writes back
RemoveBlock(content, alias) ==
    Join(ScanLines(Split(content, NL), HostLine(alias), FALSE), NL)

\* removeSSHConfigBlock(configPath, alias); `io` is whether ReadFile and WriteFile
\* succeed on an existing file. ReadFile of a missing file is an error.
RemoveSSHConfigBlock(alias, io) ==
    IF ~config.exists \/ ~io
    THEN /\ cfgErr' = "io"
         /\ config' = config
    ELSE /\ cfgErr' = "nil"
         /\ config' = File(RemoveBlock(config.data, alias))

----------------------------------------------------------------------------
(* Inputs *)

\* Repository names typed at the prompt (already trimmed by askInput)
ValidRepos == {<<"a">>, <<"a", "b">>}
InvalidRepos == {<<"/", "a">>, <<"a", " ", "b">>}
Repos == ValidRepos \cup InvalidRepos \cup {<<>>}

\* Lines of a pre-existing config file
LinePool ==
    { <<"Host", " ", "github-", "a">>,
      <<"Host", " ", "github-", "a", "b">>,
      <<"Host", " ", "x">>,
      <<"\t", "x">>,
      <<"#", " ", "Host", " ", "github-", "a">>,
      <<>> }

\* Pre-existing config contents: up to MaxLines lines joined by newlines
EditContents ==
    { Join(ls, NL) : ls \in UNION { [1..k -> LinePool] : k \in 0..MaxLines } }

\* Directories typed at the prompt; empty selects ~/.ssh
DirInputs == {<<>>, <<"/", "d">>}

\* End of standard input: scanner.Scan() returns false and scanner.Err() is nil
EOF == <<"EOF">>

\* A failed read: scanner.Scan() returns false and scanner.Err() is an error
ReadError == <<"ERR">>

\* What a read of standard input can meet instead of a line
NoLine == {EOF, ReadError}

\* Lines typed at the repository prompt, before trimming
RepoInputs == Repos \cup {<<" ", "a", " ">>} \cup NoLine

\* Answers to the yes/no prompts
YesNoInputs == {<<>>, <<"y">>, <<"Y">>, <<"n">>} \cup NoLine

\* The config file before the first run
InitConfigs ==
    { NoFile,
      File(Join(<<HostLine(Alias(<<"a", "b">>)), <<"\t", "x">>, <<>> >>, NL)),
      File(<<"x">>) }

\* The key some other tool loaded into the agent before the first run
ForeignKey == "k0"

----------------------------------------------------------------------------
(* Helpers of the flows *)

\* askInput: the trimmed line; when Scan() fails, "" and scanner.Err(), which is
\* nil at end of input
AskInput(raw) ==
    IF raw = ReadError THEN [text |-> <<>>, err |-> TRUE]
    ELSE IF raw = EOF THEN [text |-> <<>>, err |-> FALSE]
    ELSE [text |-> TrimSpace(raw), err |-> FALSE]

\* fileExists(path) for a key file
FileExists(path) == path \in DOMAIN keys

\* log.Fatal(msg): the process exits
Fatal(msg) == pc' = "fatal" /\ fatal' = msg

\* What ssh-keygen -l -f prints for a key file holding key `id`, as far as
\* getKeyFingerprint distinguishes it
KeygenOutputs(id) ==
    { <<>>, <<"256", NL>>, <<"256", " ", id, " ", "comment", NL>> }

\* getKeyFingerprint: the second field of the first line, "" on any error
GetKeyFingerprint(failed, output) ==
    IF failed THEN <<>>
    ELSE LET lines == Split(output, NL)
         IN  IF Len(lines) = 0 \/ lines[1] = <<>> THEN <<>>
             ELSE LET parts == Fields(lines[1])
                  IN  IF Len(parts) < 2 THEN <<>> ELSE parts[2]

\* What ssh-add -l prints: one line per key of the agent
RECURSIVE AgentListing(_)
AgentListing(ids) ==
    IF ids = {} THEN <<>>
    ELSE LET id == CHOOSE x \in ids : TRUE
         IN  <<"256", " ", id, " ", "comment", NL>> \o AgentListing(ids \ {id})

\* isKeyInSSHAgent(fingerprint), given whether ssh-add -l failed and what it printed
IsKeyInSSHAgent(fp, failed, output) ==
    IF fp = <<>> THEN FALSE
    ELSE IF failed THEN FALSE
    ELSE LET lines == Split(output, NL)
         IN  \E i \in 1..Len(lines) : Contains(lines[i], fp)

\* The files of a key pair written by ssh-keygen
WithKeyPair(ks, priv, pub, id) ==
    [p \in DOMAIN ks \cup {priv, pub} |-> IF p \in {priv, pub} THEN id ELSE ks[p]]

\* The key files left after os.Remove(path)
WithoutFile(ks, path) == [p \in DOMAIN ks \ {path} |-> ks[p]]

\* A backup file written at timestamp ts
WithBackup(bs, ts, data) ==
    [t \in DOMAIN bs \cup {ts} |-> IF t = ts THEN data ELSE bs[t]]

Snapshot == [config |-> config, keys |-> keys, agent |-> agent]

disk == <<config, keys, agent, backups>>
locals == <<repo, dir, overwrite, fingerprint, inAgent, cfgErr, bakErr>>

----------------------------------------------------------------------------
(* main *)

Init ==
    /\ config \in InitConfigs
    /\ keys = <<>>
    /\ agent = {ForeignKey}
    /\ backups = <<>>
    /\ runs = 1
    /\ pc = "main"
    /\ flow = ""
    /\ homeOk \in BOOLEAN
    /\ repo = <<>>
    /\ dir = <<>>
    /\ overwrite = <<>>
    /\ fingerprint = <<>>
    /\ inAgent = FALSE
    /\ cfgErr = ""
    /\ bakErr = ""
    /\ fatal = ""
    /\ ops = <<>>
    /\ pre = [config |-> config, keys |-> <<>>, agent |-> {ForeignKey}]

\* main(): the menu and the dispatch on the choice
Main ==
    /\ pc = "main"
    /\ \E choice \in {<<"1">>, <<"2">>, <<"3">>} \cup NoLine :
         IF choice \in NoLine
         THEN Fatal("Failed to read input") /\ flow' = flow
         ELSE IF choice = <<"1">> THEN pc' = "gen_repo" /\ flow' = "gen" /\ fatal' = fatal
         ELSE IF choice = <<"2">> THEN pc' = "rev_repo" /\ flow' = "rev" /\ fatal' = fatal
         ELSE pc' = "done" /\ flow' = flow /\ fatal' = fatal
    /\ UNCHANGED <<disk, locals, runs, homeOk, ops, pre>>

\* The user starts the program again, one second or more later
Restart ==
    /\ pc \in {"done", "fatal"}
    /\ runs < MaxRuns
    /\ runs' = runs + 1
    /\ pc' = "main"
    /\ flow' = ""
    /\ homeOk' \in BOOLEAN
    /\ repo' = <<>>
    /\ dir' = <<>>
    /\ overwrite' = <<>>
    /\ fingerprint' = <<>>
    /\ inAgent' = FALSE
    /\ cfgErr' = ""
    /\ bakErr' = ""
    /\ fatal' = ""
    /\ ops' = <<>>
    /\ pre' = Snapshot
    /\ UNCHANGED disk

----------------------------------------------------------------------------
(* generateKey *)

\* Lines 41-48: the repository name and its validation
GenAskRepo ==
    /\ pc = "gen_repo"
    /\ \E raw \in RepoInputs :
         LET in == AskInput(raw)
         IN  IF in.err \/ in.text = <<>>
             THEN Fatal("Invalid repository name") /\ repo' = in.text
             ELSE IF ContainsAny(in.text, {"/", "\\", " "})
             THEN Fatal("Repository name contains invalid characters") /\ repo' = in.text
             ELSE pc' = "gen_email" /\ repo' = in.text /\ fatal' = fatal
    /\ UNCHANGED <<disk, runs, flow, homeOk, dir, overwrite, fingerprint, inAgent,
                   cfgErr, bakErr, ops, pre>>

\* Lines 50-57: the email, used only as the comment of the key
GenAskEmail ==
    /\ pc = "gen_email"
    /\ \E raw \in {<<>>, <<"e">>} \cup NoLine :
         IF AskInput(raw).err
         THEN Fatal("Failed to read email")
         ELSE pc' = "gen_dir" /\ fatal' = fatal
    /\ UNCHANGED <<disk, locals, runs, flow, homeOk, ops, pre>>

\* Lines 59-70: the home directory, the target directory, MkdirAll
GenAskDir ==
    /\ pc = "gen_dir"
    /\ IF ~homeOk
       THEN Fatal("Cannot determine home directory") /\ UNCHANGED <<dir, ops>>
       ELSE \E raw \in DirInputs \cup NoLine, mkdirOk \in BOOLEAN :
              LET in == AskInput(raw)
              IN  IF in.err
                  THEN Fatal("Failed to read target directory") /\ UNCHANGED <<dir, ops>>
                  ELSE /\ dir' = IF in.text = <<>> THEN SSHDir ELSE in.text
                       /\ ops' = Append(ops, "mkdir")
                       /\ IF mkdirOk
                          THEN pc' = "gen_check" /\ fatal' = fatal
                          ELSE Fatal("Failed to create directory")
    /\ UNCHANGED <<disk, runs, flow, homeOk, repo, overwrite, fingerprint, inAgent,
                   cfgErr, bakErr, pre>>

\* Faulty variant of OverwriteConfirmed: any answer that was read confirms
OverwriteConfirmed_AnyAnswer(in) == ~in.err

\* Whether the answer to the overwrite prompt lets generateKey go on (line 80)
OverwriteConfirmed(in) == ~in.err /\ ToLower(in.text) = <<"y">>

\* Lines 72-83: existing key files need a confirmation
GenCheckExisting ==
    /\ pc = "gen_check"
    /\ IF FileExists(PrivPath(dir, repo)) \/ FileExists(PubPath(dir, repo))
       THEN \E raw \in YesNoInputs :
              LET in == AskInput(raw)
              IN  IF OverwriteConfirmed(in)
                  THEN pc' = "gen_keygen" /\ overwrite' = in.text /\ fatal' = fatal
                  ELSE Fatal("Operation aborted by user") /\ overwrite' = in.text
       ELSE pc' = "gen_keygen" /\ UNCHANGED <<overwrite, fatal>>
    /\ UNCHANGED <<disk, runs, flow, homeOk, repo, dir, fingerprint, inAgent,
                   cfgErr, bakErr, ops, pre>>

\* Lines 85-100: ssh-keygen writes the key pair; the public key is read back
GenKeygen ==
    /\ pc = "gen_keygen"
    /\ ops' = Append(ops, "ssh-keygen")
    /\ \E keygenOk \in BOOLEAN, readOk \in BOOLEAN :
         IF ~keygenOk
         THEN Fatal("Failed to generate key pair with ssh-keygen") /\ keys' = keys
         ELSE /\ keys' = WithKeyPair(keys, PrivPath(dir, repo), PubPath(dir, repo),
                                     ToString(runs))
              /\ IF readOk
                 THEN pc' = "gen_user" /\ fatal' = fatal
                 ELSE Fatal("Failed to read public key")
    /\ UNCHANGED <<config, agent, backups, locals, runs, flow, homeOk, pre>>

\* Lines 102-106: the GitHub user or organization
GenAskUser ==
    /\ pc = "gen_user"
    /\ \E raw \in {<<>>, <<"u">>} \cup NoLine :
         LET in == AskInput(raw)
         IN  IF in.err \/ in.text = <<>>
             THEN Fatal("Invalid GitHub username or organization")
             ELSE pc' = "gen_createcfg" /\ fatal' = fatal
    /\ UNCHANGED <<disk, locals, runs, flow, homeOk, ops, pre>>

\* Whether the answer to "Create matching SSH config entry?" asks for one (line 110)
CreateConfigWanted(in) ==
    ~in.err /\ (in.text = <<>> \/ ToLower(in.text) = <<"y">>)

\* Lines 108-110: the prompt for the config entry
GenAskConfig ==
    /\ pc = "gen_createcfg"
    /\ \E raw \in YesNoInputs :
         pc' = IF CreateConfigWanted(AskInput(raw)) THEN "gen_addcfg" ELSE "gen_push"
    /\ UNCHANGED <<disk, locals, runs, flow, homeOk, fatal, ops, pre>>

\* Where generateKey goes after addSSHConfigEntry returned err (lines 113-127)
AfterAddConfig(err) == IF err = "nil" THEN "gen_agent" ELSE "gen_push"

\* Lines 111-119: addSSHConfigEntry and the report of its result
GenAddConfig ==
    /\ pc = "gen_addcfg"
    /\ ops' = Append(ops, "addcfg")
    /\ \E io \in BOOLEAN : AddSSHConfigEntry(Alias(repo), PrivPath(dir, repo), io)
    /\ pc' = AfterAddConfig(cfgErr')
    /\ UNCHANGED <<keys, agent, backups, runs, flow, homeOk, repo, dir, overwrite,
                   fingerprint, inAgent, bakErr, fatal, pre>>

\* Lines 120-126 and addKeyToSSHAgent: the probe, then ssh-add <privPath>
GenAgentAdd ==
    /\ pc = "gen_agent"
    /\ \E probeOk \in BOOLEAN, addOk \in BOOLEAN :
         /\ ops' = IF probeOk THEN ops \o <<"ssh-add -l", "ssh-add">>
                   ELSE Append(ops, "ssh-add -l")
         /\ agent' = IF probeOk /\ addOk /\ FileExists(PrivPath(dir, repo))
                     THEN agent \cup {keys[PrivPath(dir, repo)]}
                     ELSE agent
    /\ pc' = "gen_push"
    /\ UNCHANGED <<config, keys, backups, locals, runs, flow, homeOk, fatal, pre>>

\* Lines 130-136: the push commands
GenPush ==
    /\ pc = "gen_push"
    /\ ops' = Append(ops, "print push")
    /\ pc' = "done"
    /\ UNCHANGED <<disk, locals, runs, flow, homeOk, fatal, pre>>

----------------------------------------------------------------------------
(* revokeKey *)

\* Whether revokeKey accepts the repository name read by askInput (lines 141-144)
RevRepoAccepted(in) == ~in.err /\ in.text # <<>>

\* Lines 140-144: the repository name
RevAskRepo ==
    /\ pc = "rev_repo"
    /\ \E raw \in RepoInputs :
         LET in == AskInput(raw)
         IN  IF RevRepoAccepted(in)
             THEN pc' = "rev_dir" /\ repo' = in.text /\ fatal' = fatal
             ELSE Fatal("Invalid repository name") /\ repo' = in.text
    /\ UNCHANGED <<disk, runs, flow, homeOk, dir, overwrite, fingerprint, inAgent,
                   cfgErr, bakErr, ops, pre>>

\* Lines 146-153: the key directory; the home directory is resolved only for the default
RevAskDir ==
    /\ pc = "rev_dir"
    /\ \E raw \in DirInputs \cup NoLine :
         LET in == AskInput(raw)
         IN  IF in.err
             THEN Fatal("Failed to read directory") /\ dir' = dir
             ELSE IF in.text = <<>>
             THEN IF homeOk
                  THEN pc' = "rev_fp" /\ dir' = SSHDir /\ fatal' = fatal
                  ELSE Fatal("Cannot determine home directory") /\ dir' = dir
             ELSE pc' = "rev_fp" /\ dir' = in.text /\ fatal' = fatal
    /\ UNCHANGED <<disk, runs, flow, homeOk, repo, overwrite, fingerprint, inAgent,
                   cfgErr, bakErr, ops, pre>>

\* Lines 167-174: the fingerprint of the private key, if the file exists
RevFingerprint ==
    /\ pc = "rev_fp"
    /\ IF FileExists(PrivPath(dir, repo))
       THEN /\ ops' = Append(ops, "ssh-keygen -l")
            /\ \E failed \in BOOLEAN, output \in KeygenOutputs(keys[PrivPath(dir, repo)]) :
                 fingerprint' = GetKeyFingerprint(failed, output)
       ELSE UNCHANGED <<ops, fingerprint>>
    /\ pc' = "rev_agent"
    /\ UNCHANGED <<disk, runs, flow, homeOk, repo, dir, overwrite, inAgent,
                   cfgErr, bakErr, fatal, pre>>

\* Faulty variant of AfterAgentCheck: the agent listing is not consulted
AfterAgentCheck_IgnoresListing(fp, found) ==
    IF fp # <<>> THEN "rev_agentrm" ELSE "rev_rmpriv"

\* The branch taken at line 177
AfterAgentCheck(fp, found) ==
    IF fp # <<>> /\ found THEN "rev_agentrm" ELSE "rev_rmpriv"

\* Line 177 and isKeyInSSHAgent: ssh-add -l is run only for a non-empty fingerprint
RevAgentCheck ==
    /\ pc = "rev_agent"
    /\ IF fingerprint # <<>>
       THEN /\ ops' = Append(ops, "ssh-add -l")
            /\ \E failed \in BOOLEAN :
                 inAgent' = IsKeyInSSHAgent(fingerprint, failed, AgentListing(agent))
       ELSE /\ ops' = ops
            /\ inAgent' = FALSE
    /\ pc' = AfterAgentCheck(fingerprint, inAgent')
    /\ UNCHANGED <<disk, runs, flow, homeOk, repo, dir, overwrite, fingerprint,
                   cfgErr, bakErr, fatal, pre>>

\* Lines 178-183 and removeKeyFromSSHAgent: the probe, then ssh-add -d <privPath>
RevAgentRemove ==
    /\ pc = "rev_agentrm"
    /\ \E probeOk \in BOOLEAN, delOk \in BOOLEAN :
         /\ ops' = IF probeOk THEN ops \o <<"ssh-add -l", "ssh-add -d">>
                   ELSE Append(ops, "ssh-add -l")
         /\ agent' = IF probeOk /\ delOk /\ FileExists(PrivPath(dir, repo))
                     THEN agent \ {keys[PrivPath(dir, repo)]}
                     ELSE agent
    /\ pc' = "rev_rmpriv"
    /\ UNCHANGED <<config, keys, backups, locals, runs, flow, homeOk, fatal, pre>>

\* removeFileWithInfo(path, desc): os.Remove may fail on an existing file
RemoveFileWithInfo(path, removeOk) ==
    keys' = IF FileExists(path) /\ removeOk THEN WithoutFile(keys, path) ELSE keys

\* Line 192
RevRemovePriv ==
    /\ pc = "rev_rmpriv"
    /\ ops' = Append(ops, "rm priv")
    /\ \E removeOk \in BOOLEAN : RemoveFileWithInfo(PrivPath(dir, repo), removeOk)
    /\ pc' = "rev_rmpub"
    /\ UNCHANGED <<config, agent, backups, locals, runs, flow, homeOk, fatal, pre>>

\* Line 193
RevRemovePub ==
    /\ pc = "rev_rmpub"
    /\ ops' = Append(ops, "rm pub")
    /\ \E removeOk \in BOOLEAN : RemoveFileWithInfo(PubPath(dir, repo), removeOk)
    /\ pc' = "rev_cfg"
    /\ UNCHANGED <<config, agent, backups, locals, runs, flow, homeOk, fatal, pre>>

\* Lines 195-197: the config path needs the home directory; the edit needs the file
RevConfigPath ==
    /\ pc = "rev_cfg"
    /\ IF ~homeOk
       THEN Fatal("Cannot determine home directory")
       ELSE /\ pc' = IF config.exists THEN "rev_backup" ELSE "done"
            /\ fatal' = fatal
    /\ UNCHANGED <<disk, locals, runs, flow, homeOk, ops, pre>>

\* Faulty variant of BackupFile: the backup file is created but nothing is copied
BackupFile_NoCopy(ts, outcome) ==
    /\ bakErr' = outcome
    /\ backups' = IF outcome = "create" THEN backups
                  ELSE [t \in DOMAIN backups \cup {ts} |->
                          IF t = ts THEN <<>> ELSE backups[t]]

\* backupFile(path): the copy at <path>.backup.<timestamp>. `outcome` is "nil",
\* "create" (os.Open or os.Create failed) or "copy" (io.Copy failed on the new file)
BackupFile(ts, outcome) ==
    /\ bakErr' = outcome
    /\ backups' = IF outcome = "nil" THEN WithBackup(backups, ts, config.data)
                  ELSE IF outcome = "copy" THEN WithBackup(backups, ts, <<>>)
                  ELSE backups

\* Faulty variant of AfterBackup: a failed backup ends the flow
AfterBackup_StopOnError(err) == IF err = "nil" THEN "rev_rmcfg" ELSE "done"

\* Where revokeKey goes after backupFile returned err: a failure is only reported
AfterBackup(err) == "rev_rmcfg"

\* Lines 198-201
RevBackup ==
    /\ pc = "rev_backup"
    /\ ops' = Append(ops, "backup")
    /\ \E outcome \in {"nil", "create", "copy"} : BackupFile(runs, outcome)
    /\ pc' = AfterBackup(bakErr')
    /\ UNCHANGED <<config, keys, agent, runs, flow, homeOk, repo, dir, overwrite,
                   fingerprint, inAgent, cfgErr, fatal, pre>>

\* Lines 202-208
RevRemoveBlock ==
    /\ pc = "rev_rmcfg"
    /\ ops' = Append(ops, "rmcfg")
    /\ \E io \in BOOLEAN : RemoveSSHConfigBlock(Alias(repo), io)
    /\ pc' = "done"
    /\ UNCHANGED <<keys, agent, backups, runs, flow, homeOk, repo, dir, overwrite,
                   fingerprint, inAgent, bakErr, fatal, pre>>

----------------------------------------------------------------------------

Next ==
    \/ Main
    \/ Restart
    \/ GenAskRepo
    \/ GenAskEmail
    \/ GenAskDir
    \/ GenCheckExisting
    \/ GenKeygen
    \/ GenAskUser
    \/ GenAskConfig
    \/ GenAddConfig
    \/ GenAgentAdd
    \/ GenPush
    \/ RevAskRepo
    \/ RevAskDir
    \/ RevFingerprint
    \/ RevAgentCheck
    \/ RevAgentRemove
    \/ RevRemovePriv
    \/ RevRemovePub
    \/ RevConfigPath
    \/ RevBackup
    \/ RevRemoveBlock

Spec == Init /\ [][Next]_vars

----------------------------------------------------------------------------
(* The config editor on its own: addSSHConfigEntry and removeSSHConfigBlock   *)
(* applied to drawn config contents, aliases and I/O outcomes                 *)

InitEdit ==
    /\ config \in {NoFile} \cup {File(c) : c \in EditContents}
    /\ keys = <<>>
    /\ agent = {ForeignKey}
    /\ backups = <<>>
    /\ runs = 1
    /\ pc = "edit"
    /\ flow = "edit"
    /\ homeOk = TRUE
    /\ repo = <<>>
    /\ dir = SSHDir
    /\ overwrite = <<>>
    /\ fingerprint = <<>>
    /\ inAgent = FALSE
    /\ cfgErr = ""
    /\ bakErr = ""
    /\ fatal = ""
    /\ ops = <<>>
    /\ pre = [config |-> config, keys |-> <<>>, agent |-> {ForeignKey}]

\* addSSHConfigEntry(alias, privPath) on the drawn file
EditAdd ==
    /\ pc = "edit"
    /\ \E r \in ValidRepos, io \in BOOLEAN :
         /\ repo' = r
         /\ AddSSHConfigEntry(Alias(r), PrivPath(dir, r), io)
    /\ ops' = Append(ops, "addcfg")
    /\ pc' = IF cfgErr' = "nil" THEN "edit_added" ELSE "edit_end"
    /\ UNCHANGED <<keys, agent, backups, runs, flow, homeOk, dir, overwrite,
                   fingerprint, inAgent, bakErr, fatal, pre>>

\* removeSSHConfigBlock(configPath, alias) on the drawn file
EditRemove ==
    /\ pc = "edit"
    /\ \E r \in ValidRepos, io \in BOOLEAN :
         /\ repo' = r
         /\ RemoveSSHConfigBlock(Alias(r), io)
    /\ ops' = Append(ops, "rmcfg")
    /\ pc' = "edit_end"
    /\ UNCHANGED <<keys, agent, backups, runs, flow, homeOk, dir, overwrite,
                   fingerprint, inAgent, bakErr, fatal, pre>>

\* removeSSHConfigBlock of the alias that addSSHConfigEntry has just added
EditRemoveAdded ==
    /\ pc = "edit_added"
    /\ \E io \in BOOLEAN : RemoveSSHConfigBlock(Alias(repo), io)
    /\ ops' = Append(ops, "rmcfg")
    /\ pc' = "edit_end"
    /\ UNCHANGED <<keys, agent, backups, runs, flow, homeOk, repo, dir, overwrite,
                   fingerprint, inAgent, bakErr, fatal, pre>>

NextEdit ==
    \/ EditAdd
    \/ EditRemove
    \/ EditRemoveAdded

SpecEdit == InitEdit /\ [][NextEdit]_vars

----------------------------------------------------------------------------
(* Vocabulary of the properties *)

\* The lines of a file, as the editor scans them: the pieces between newlines
Lines(content) == Split(content, NL)

\* A line that is the header `Host <alias>` of a block
IsHeaderOf(line, alias) == TrimSpace(line) = HostLine(alias)

\* A line that begins a block: it begins with `Host `
BeginsBlock(line) == HasPrefix(TrimSpace(line), <<"Host", " ">>)

\* The lines outside every span of a block headed by `Host <alias>`: a span runs
\* from the header to the line before the next line that begins with `Host `
RECURSIVE OutsideSpans(_, _, _)
OutsideSpans(lines, alias, inSpan) ==
    IF lines = <<>> THEN <<>>
    ELSE IF IsHeaderOf(Head(lines), alias) THEN OutsideSpans(Tail(lines), alias, TRUE)
    ELSE IF BeginsBlock(Head(lines)) THEN <<Head(lines)>> \o OutsideSpans(Tail(lines), alias, FALSE)
    ELSE IF inSpan THEN OutsideSpans(Tail(lines), alias, TRUE)
    ELSE <<Head(lines)>> \o OutsideSpans(Tail(lines), alias, FALSE)

\* a occurs in b, in order
RECURSIVE IsSubsequence(_, _)
IsSubsequence(a, b) ==
    IF a = <<>> THEN TRUE
    ELSE IF b = <<>> THEN FALSE
    ELSE IF Head(a) = Head(b) THEN IsSubsequence(Tail(a), Tail(b))
    ELSE IsSubsequence(a, Tail(b))

\* The number of blocks headed by `Host <alias>` in a file
CountBlocks(f, alias) ==
    LET ls == Lines(f.data)
    IN  Cardinality({i \in 1..Len(ls) : IsHeaderOf(ls[i], alias)})

HasBlock(f, alias) == CountBlocks(f, alias) > 0

\* The side effect op has been attempted by this process
Did(op) == \E i \in 1..Len(ops) : ops[i] = op

\* Every attempt of a comes before every attempt of b
AllBefore(a, b) ==
    \A i, j \in 1..Len(ops) : ops[i] = a /\ ops[j] = b => i < j

\* The process has ended
Ended == pc \in {"done", "fatal"}

\* The characters a repository name must not hold
BadChars == {"/", "\\", " "}

----------------------------------------------------------------------------
(* C1 *)

\* C1 (as claimed): removeSSHConfigBlock(config, alias) drops only the block of
\* that alias: every line outside the spans of the blocks headed by `Host <alias>`
\* is still in the file afterwards, verbatim and in its original order.
C1_RemoveKeepsOtherBlocks ==
    (flow = "edit" /\ ops = <<"rmcfg">> /\ cfgErr = "nil")
        => IsSubsequence(OutsideSpans(Lines(pre.config.data), Alias(repo), FALSE),
                         Lines(config.data))

----------------------------------------------------------------------------
(* C2 *)

\* C2: round trip. For every pre-existing config content C on which
\* addSSHConfigEntry(alias, path) succeeds, a following
\* removeSSHConfigBlock(config, alias) that writes the file leaves it with
\* content identical to C.
C2_AddRemoveRoundTrip ==
    (flow = "edit" /\ ops = <<"addcfg", "rmcfg">> /\ cfgErr = "nil" /\ pre.config.exists)
        => config = pre.config

\* C2 witness: the round trip has run on a file with an unrelated block and no
\* final newline
C2_Witness ==
    /\ flow = "edit" /\ ops = <<"addcfg", "rmcfg">> /\ cfgErr = "nil"
    /\ pre.config.exists
    /\ HasBlock(pre.config, <<"x">>)
    /\ Len(pre.config.data) > 3
    /\ pre.config.data[Len(pre.config.data)] # NL
    /\ config = pre.config

----------------------------------------------------------------------------
(* C3 *)

\* This generate flow has written both key files
KeysWritten ==
    /\ flow = "gen"
    /\ FileExists(PrivPath(dir, repo)) /\ keys[PrivPath(dir, repo)] = ToString(runs)
    /\ FileExists(PubPath(dir, repo)) /\ keys[PubPath(dir, repo)] = ToString(runs)

\* This revoke flow has deleted both key files
KeysDeleted ==
    /\ flow = "rev"
    /\ PrivPath(dir, repo) \in DOMAIN pre.keys /\ ~FileExists(PrivPath(dir, repo))
    /\ PubPath(dir, repo) \in DOMAIN pre.keys /\ ~FileExists(PubPath(dir, repo))

----------------------------------------------------------------------------
(* C4 *)

\* C4: adding a config block for an alias whose `Host <alias>` line is already in
\* the config file fails with "already exists" (once the file has been read) and
\* leaves the file unmodified; the failure is not fatal: the generate flow goes on
\* to the push commands, without adding the key to the agent.
C4_AddExistingFails ==
    (flow = "gen" /\ Did("addcfg") /\ HasBlock(pre.config, Alias(repo)))
        => /\ cfgErr \in {"exists", "io"}
           /\ config = pre.config
           /\ pc \in {"gen_push", "done"}
           /\ fatal = ""
           /\ ~Did("ssh-add")
           /\ pc = "done" => Did("print push")

\* C4 witness: a generate flow has ended normally after "already exists"
C4_Witness ==
    /\ flow = "gen" /\ pc = "done"
    /\ HasBlock(pre.config, Alias(repo))
    /\ cfgErr = "exists"
    /\ config = pre.config
    /\ Did("print push")

----------------------------------------------------------------------------
(* C5 *)

\* The aliases of the repository names that can be typed
Aliases == {Alias(r) : r \in Repos \ {<<>>}} \cup {<<"x">>}

\* C5: starting from a config file with at most one block per alias, after any
\* sequence of generate and revoke flows the config file holds at most one
\* `Host <alias>` block for every alias.
C5_AtMostOneBlockPerAlias ==
    \A alias \in Aliases : CountBlocks(config, alias) <= 1

\* C5 witness: a second generate flow for a repository whose block an earlier
\* flow has added
C5_Witness ==
    /\ runs > 1 /\ flow = "gen" /\ pc = "done"
    /\ repo = <<"a">>
    /\ ~HasBlock(config, Alias(<<"a", "b">>))
    /\ HasBlock(pre.config, Alias(repo))
    /\ Did("addcfg") /\ cfgErr = "exists"
    /\ CountBlocks(config, Alias(repo)) = 1

----------------------------------------------------------------------------
(* C6 *)

\* C6 (as claimed): a repository name that is empty or holds `/`, `\` or a space
\* is a fatal validation failure in the generate flow and in the revoke flow: the
\* process exits before any file is created, deleted or edited and before any
\* external program is invoked.
C6_InvalidNameIsFatal ==
    (flow \in {"gen", "rev"} /\ pc \notin {"gen_repo", "rev_repo"}
        /\ (repo = <<>> \/ ContainsAny(repo, BadChars)))
        => /\ pc = "fatal"
           /\ ops = <<>>
           /\ Snapshot = pre

----------------------------------------------------------------------------
(* C7 *)

\* A key file of this flow existed when the process started
KeyFileExisted ==
    PrivPath(dir, repo) \in DOMAIN pre.keys \/ PubPath(dir, repo) \in DOMAIN pre.keys

\* C7: in the generate flow, when a key file already exists at the target path,
\* key generation is invoked only after the answer y or Y to the overwrite prompt;
\* every other answer, end of input included, exits fatally with the key files,
\* the config file and the agent unchanged.
C7_OverwriteNeedsConfirmation ==
    /\ (flow = "gen" /\ pc \notin {"gen_repo", "gen_email", "gen_dir", "gen_check", "fatal"}
            /\ KeyFileExisted)
          => overwrite \in {<<"y">>, <<"Y">>}
    /\ (flow = "gen" /\ KeyFileExisted /\ overwrite \notin {<<"y">>, <<"Y">>})
          => /\ ~Did("ssh-keygen")
             /\ Snapshot = pre
    /\ fatal = "Operation aborted by user"
          => /\ KeyFileExisted
             /\ ~Did("ssh-keygen")
             /\ Snapshot = pre
    /\ (flow = "gen" /\ keys # pre.keys /\ KeyFileExisted)
          => overwrite \in {<<"y">>, <<"Y">>}

\* C7 witness: the user has declined the overwrite of existing key files
C7_Witness ==
    /\ flow = "gen" /\ pc = "fatal"
    /\ fatal = "Operation aborted by user"
    /\ PrivPath(dir, repo) \in DOMAIN pre.keys
    /\ overwrite = <<"n">>
    /\ keys = pre.keys

----------------------------------------------------------------------------
(* C8 *)

\* The revoke flow has read its two answers and is past the prompts
RevPastPrompts ==
    flow = "rev" /\ pc \notin {"rev_repo", "rev_dir"}
        /\ fatal \notin {"Invalid repository name", "Failed to read directory"}
        /\ ~(fatal = "Cannot determine home directory" /\ ops = <<>>)

\* C8: non-fatal failures never stop a flow. A revoke flow that is past its
\* prompts ends only after both key-file deletions, whatever the fingerprint, the
\* agent and the backup did; it ends normally with the block removal attempted
\* when the config file exists, and the only fatal exit left is the
\* home-directory lookup. A generate flow that has reached the config prompt
\* never exits fatally and ends with the push commands printed. No step of a
\* flow is stuck.
C8_NonFatalFailuresGoOn ==
    /\ (RevPastPrompts /\ Ended)
          => /\ Did("rm priv") /\ Did("rm pub")
             /\ pc = "fatal" => fatal = "Cannot determine home directory"
             /\ (pc = "done" /\ pre.config.exists) => Did("backup") /\ Did("rmcfg")
    /\ (flow = "gen" /\ (Did("addcfg") \/ pc \in {"gen_createcfg", "gen_addcfg", "gen_agent", "gen_push"}))
          => pc # "fatal"
    /\ (flow = "gen" /\ pc = "done") => Did("print push")
    /\ (flow \in {"gen", "rev"} /\ ~Ended) => ENABLED Next

\* C8 witness: a revoke flow has ended normally with the block removed although
\* the removal from the agent and the backup failed
C8_Witness ==
    /\ flow = "rev" /\ pc = "done"
    /\ Did("ssh-add -d") /\ agent = pre.agent
    /\ bakErr = "create"
    /\ Did("rm pub") /\ Did("rmcfg") /\ cfgErr = "nil"
    /\ config # pre.config

----------------------------------------------------------------------------
(* C9 *)

\* C9: the block removal of the revoke flow, the only edit that drops content of
\* the config file, comes after the backup; when the copy succeeds the backup at
\* `<config>.backup.<timestamp>` holds the content the config file had
\* immediately before the edit.
C9_BackupBeforeEdit ==
    /\ AllBefore("backup", "rmcfg")
    /\ Did("rmcfg") => Did("backup")
    /\ (flow = "rev" /\ ~Did("backup")) => config = pre.config
    /\ (pc = "rev_rmcfg" /\ bakErr = "nil")
          => runs \in DOMAIN backups /\ backups[runs] = config.data
    /\ (flow = "rev" /\ Did("rmcfg") /\ bakErr = "nil")
          => runs \in DOMAIN backups /\ backups[runs] = pre.config.data
    /\ flow = "gen" => HasPrefix(config.data, pre.config.data)

\* C9 witness: the revoke flow has edited the config file and the backup holds
\* the content from before the edit
C9_Witness ==
    /\ flow = "rev" /\ pc = "done"
    /\ Did("rmcfg") /\ bakErr = "nil"
    /\ config # pre.config
    /\ backups[runs] = pre.config.data

----------------------------------------------------------------------------
(* C10 *)

\* C10: in the revoke flow `ssh-add -d <privPath>` is attempted only when the
\* private key file existed, its fingerprint was obtained and the fingerprint
\* was found in the agent listing; every such attempt comes before the deletion
\* of the key files, and the key files are deleted before the config file is
\* backed up and edited.
C10_RevokeOrder ==
    /\ Did("ssh-add -d")
          => /\ PrivPath(dir, repo) \in DOMAIN pre.keys
             /\ Did("ssh-keygen -l")
             /\ fingerprint = <<pre.keys[PrivPath(dir, repo)]>>
             /\ inAgent
             /\ agent \subseteq pre.agent
             /\ \E i \in 1..Len(Lines(AgentListing(pre.agent))) :
                    Contains(Lines(AgentListing(pre.agent))[i], fingerprint)
    /\ AllBefore("ssh-keygen -l", "ssh-add -d")
    /\ AllBefore("ssh-add -d", "rm priv")
    /\ AllBefore("ssh-add -d", "rm pub")
    /\ AllBefore("rm priv", "rm pub")
    /\ AllBefore("rm priv", "backup") /\ AllBefore("rm pub", "backup")
    /\ AllBefore("rm priv", "rmcfg") /\ AllBefore("rm pub", "rmcfg")
    /\ (Did("backup") \/ Did("rmcfg")) => Did("rm priv") /\ Did("rm pub")
    /\ (flow = "rev" /\ ~Did("rm priv")) => keys = pre.keys

\* C10 witness: a revoke flow has removed the key from the agent, deleted the key
\* files and edited the config file
C10_Witness ==
    /\ flow = "rev" /\ pc = "done"
    /\ Did("ssh-add -d") /\ agent # pre.agent
    /\ ~FileExists(PrivPath(dir, repo))
    /\ Did("rmcfg") /\ cfgErr = "nil"

====
